---- MODULE Spec2Model ----
(***************************************************************************)
(* The selection-driven scrolling viewport of the separated list widget,   *)
(* src/src/widgets/separated_list/viewport.rs: SelState, Window and the    *)
(* one-pass loop of selection_scroll over a BoundedVecDeque.               *)
(*                                                                         *)
(* Indices are 0-based as in the source; the i-th input line (0-based) is  *)
(* items[i + 1].  A DisplayLine is [line, must_display]: its content is    *)
(* the line's own index, so that two lines are equal only when they are    *)
(* the same input line.  usize arithmetic is not wrapped: every index the  *)
(* pass computes is bounded by the input length plus prev_pos.             *)
(***************************************************************************)
EXTENDS Integers, Sequences, FiniteSets, TLC

\* Bounds of the model.
MaxLen == 7
MaxSize == 3
MaxPos == 8
MaxPasses == 2
\* Bounds of the two interleaved calls of SpecTwo.
MaxLen2 == 4
MaxSize2 == 2
MaxPos2 == 3

VARIABLES
    items,        \* the input lines of the pass (the `items` argument)
    window_size,  \* the `window_size` argument
    window_pos,   \* the `window_pos` argument (prev_pos)
    window,       \* the Window of the pass
    state,        \* the SelState of the pass
    buffer,       \* the BoundedVecDeque of the pass
    i,            \* number of input lines the loop has taken from the iterator
    pc,           \* "loop", "break" (left the loop early) or "end" (input exhausted)
    pass,         \* 1 for the first call, 2 for the call that follows it, ...
    prev,         \* results of the earlier calls: <<[pos, first, lines]>>
    other         \* the locals of a second call running at the same time, or NoCall

vars == <<items, window_size, window_pos, window, state, buffer, i, pc, pass, prev, other>>

----------------------------------------------------------------------------
\* Small arithmetic helpers.
Max(a, b) == IF a >= b THEN a ELSE b
Min(a, b) == IF a <= b THEN a ELSE b

----------------------------------------------------------------------------
\* enum SelState { NotSeen, Started(usize), Complete }
NotSeen == [tag |-> "NotSeen"]
Started(index) == [tag |-> "Started", index |-> index]
Complete == [tag |-> "Complete"]

\* A toggle that restarts the run on every selected line.
toggle_restart(self, sel, index) ==
    CASE (self.tag = "NotSeen" \/ self.tag = "Started") /\ sel -> Started(index)
      [] self.tag = "Started" /\ ~sel -> Complete
      [] OTHER -> self

\* A toggle that lets a completed run start again.
toggle_reopen(self, sel, index) ==
    CASE (self.tag = "NotSeen" \/ self.tag = "Complete") /\ sel -> Started(index)
      [] self.tag = "Started" /\ ~sel -> Complete
      [] OTHER -> self

\* SelState::toggle
toggle(self, sel, index) ==
    CASE self.tag = "NotSeen" /\ sel -> Started(index)
      [] self.tag = "Started" /\ ~sel -> Complete
      [] OTHER -> self

----------------------------------------------------------------------------
\* Option<usize>
None == [some |-> FALSE]
Some(v) == [some |-> TRUE, val |-> v]

\* A window whose goal is one line after the remembered position.
Window_new_off(size, prev_pos) ==
    [goal_first_index |-> prev_pos + 1,
     curr_first_index |-> 0,
     size |-> size,
     fixed |-> None]

\* Window::new
Window_new(size, prev_pos) ==
    [goal_first_index |-> prev_pos,
     curr_first_index |-> 0,
     size |-> size,
     fixed |-> None]

\* A fix that anchors at the window's start instead of the line's index.
fix_at_window(w, st) ==
    IF ~w.fixed.some /\ st.tag = "Started"
    THEN [w EXCEPT !.fixed = Some(w.curr_first_index)]
    ELSE w

\* Window::fix
fix(w, st) ==
    IF ~w.fixed.some /\ st.tag = "Started"
    THEN [w EXCEPT !.fixed = Some(st.index)]
    ELSE w

\* An advance that leaves the goal behind.
advance_no_goal(w) ==
    [w EXCEPT !.curr_first_index = w.curr_first_index + 1]

\* An advance with the two indices exchanged.
advance_swapped(w) ==
    [w EXCEPT
        !.curr_first_index =
            IF w.goal_first_index = w.curr_first_index
            THEN w.curr_first_index + 1 ELSE w.curr_first_index,
        !.goal_first_index = w.goal_first_index + 1]

\* Window::advance
advance(w) ==
    [w EXCEPT
        !.goal_first_index =
            IF w.goal_first_index = w.curr_first_index
            THEN w.goal_first_index + 1 ELSE w.goal_first_index,
        !.curr_first_index = w.curr_first_index + 1]

\* An alignment test that never succeeds.
is_aligned_never(w) == FALSE

\* An alignment test that always succeeds.
is_aligned_always(w) == TRUE

\* An alignment test that already succeeds one line before the goal.
is_aligned_near(w) == w.goal_first_index <= w.curr_first_index + 1

\* Window::is_aligned
is_aligned(w) == w.goal_first_index = w.curr_first_index

\* An anchor test that is ignored.
can_advance_unanchored(w) == TRUE

\* An anchor test that lets the window step one past the anchor.
can_advance_past(w) ==
    IF w.fixed.some THEN w.curr_first_index <= w.fixed.val ELSE TRUE

\* An anchor test that stops one step before the anchor.
can_advance_short(w) ==
    IF w.fixed.some THEN w.curr_first_index + 1 < w.fixed.val ELSE TRUE

\* Window::can_advance
can_advance(w) ==
    IF w.fixed.some THEN w.curr_first_index < w.fixed.val ELSE TRUE

----------------------------------------------------------------------------
\* BoundedVecDeque<DisplayLine>: [max_len, vec_deque].

\* A buffer with room for one line too many.
new_buffer_wide(max_len) == [max_len |-> max_len + 1, vec_deque |-> <<>>]

\* BoundedVecDeque::new(window_size)
new_buffer(max_len) == [max_len |-> max_len, vec_deque |-> <<>>]

\* BoundedVecDeque::is_full
is_full(b) == Len(b.vec_deque) >= b.max_len

\* BoundedVecDeque::push_back: drops the value when max_len is 0, else
\* evicts the front when full and appends.
push_back(b, l) ==
    IF b.max_len = 0 THEN b
    ELSE IF is_full(b)
         THEN [b EXCEPT !.vec_deque = Append(Tail(b.vec_deque), l)]
         ELSE [b EXCEPT !.vec_deque = Append(b.vec_deque, l)]

----------------------------------------------------------------------------
\* The inputs of a call.
Flags == UNION {[1..n -> BOOLEAN] : n \in 0..MaxLen}
DisplayLines(f) == [k \in 1..Len(f) |-> [line |-> k - 1, must_display |-> f[k]]]
Items == {DisplayLines(f) : f \in Flags}
Sizes == 0..MaxSize
Positions == 0..MaxPos

\* No second call is running.
NoCall == [pc |-> "none"]

\* The state after the three `let mut` statements of selection_scroll.
Init ==
    /\ items \in Items
    /\ window_size \in Sizes
    /\ window_pos \in Positions
    /\ window = Window_new(window_size, window_pos)
    /\ state = NotSeen
    /\ buffer = new_buffer(window_size)
    /\ i = 0
    /\ pc = "loop"
    /\ pass = 1
    /\ prev = <<>>
    /\ other = NoCall

\* The line the iterator yields next, and the tracker and window after
\* `state.toggle(l.must_display, i); window.fix(state);`.
l == items[i + 1]
state1 == toggle(state, l.must_display, i)
window1 == fix(window, state1)

HasNext == pc = "loop" /\ i < Len(items)

Inputs == <<items, window_size, window_pos, pass, prev, other>>

\* A fill phase that looks at the halt condition of a completed selection
\* before it looks at the buffer.
Fill_or_halt ==
    /\ HasNext
    /\ ~is_full(buffer)
    /\ state' = state1
    /\ window' = window1
    /\ i' = i + 1
    /\ IF state1.tag = "Complete" /\ is_aligned(window1)
       THEN pc' = "break" /\ buffer' = buffer
       ELSE pc' = "loop" /\ buffer' = push_back(buffer, l)
    /\ UNCHANGED Inputs

\* `if !buffer.is_full() { buffer.push_back(l); continue; }`
Fill ==
    /\ HasNext
    /\ ~is_full(buffer)
    /\ state' = state1
    /\ window' = window1
    /\ buffer' = push_back(buffer, l)
    /\ i' = i + 1
    /\ pc' = "loop"
    /\ UNCHANGED Inputs

\* `SelState::NotSeen => { window.advance(); buffer.push_back(l); }`
SlideNotSeen ==
    /\ HasNext
    /\ is_full(buffer)
    /\ state1.tag = "NotSeen"
    /\ state' = state1
    /\ window' = advance(window1)
    /\ buffer' = push_back(buffer, l)
    /\ i' = i + 1
    /\ pc' = "loop"
    /\ UNCHANGED Inputs

\* `SelState::Started(_) => if window.can_advance() { advance; push_back }`
SlideStarted ==
    /\ HasNext
    /\ is_full(buffer)
    /\ state1.tag = "Started"
    /\ can_advance(window1)
    /\ state' = state1
    /\ window' = advance(window1)
    /\ buffer' = push_back(buffer, l)
    /\ i' = i + 1
    /\ pc' = "loop"
    /\ UNCHANGED Inputs

\* `SelState::Started(_) => ... else { break; }`
BreakStarted ==
    /\ HasNext
    /\ is_full(buffer)
    /\ state1.tag = "Started"
    /\ ~can_advance(window1)
    /\ state' = state1
    /\ window' = window1
    /\ i' = i + 1
    /\ pc' = "break"
    /\ UNCHANGED <<buffer, Inputs>>

\* An aligned break that pushes the line in hand before it leaves the loop.
BreakAligned_pushes ==
    /\ HasNext
    /\ is_full(buffer)
    /\ state1.tag = "Complete"
    /\ is_aligned(window1)
    /\ state' = state1
    /\ window' = advance(window1)
    /\ buffer' = push_back(buffer, l)
    /\ i' = i + 1
    /\ pc' = "break"
    /\ UNCHANGED Inputs

\* `SelState::Complete => if window.is_aligned() { break; }`
BreakAligned ==
    /\ HasNext
    /\ is_full(buffer)
    /\ state1.tag = "Complete"
    /\ is_aligned(window1)
    /\ state' = state1
    /\ window' = window1
    /\ i' = i + 1
    /\ pc' = "break"
    /\ UNCHANGED <<buffer, Inputs>>

\* `SelState::Complete => ... else if window.can_advance() { advance; push_back }`
SlideComplete ==
    /\ HasNext
    /\ is_full(buffer)
    /\ state1.tag = "Complete"
    /\ ~is_aligned(window1)
    /\ can_advance(window1)
    /\ state' = state1
    /\ window' = advance(window1)
    /\ buffer' = push_back(buffer, l)
    /\ i' = i + 1
    /\ pc' = "loop"
    /\ UNCHANGED Inputs

\* `SelState::Complete => ... else { break; }`
BreakComplete ==
    /\ HasNext
    /\ is_full(buffer)
    /\ state1.tag = "Complete"
    /\ ~is_aligned(window1)
    /\ ~can_advance(window1)
    /\ state' = state1
    /\ window' = window1
    /\ i' = i + 1
    /\ pc' = "break"
    /\ UNCHANGED <<buffer, Inputs>>

\* The iterator returns None: the `for` loop falls off its end.
Exhausted ==
    /\ pc = "loop"
    /\ i = Len(items)
    /\ pc' = "end"
    /\ UNCHANGED <<state, window, buffer, i, Inputs>>

\* `buffer.into_iter()`: the lines the call returns, and the index of the
\* first of them.
Returned == pc \in {"break", "end"}
result == buffer.vec_deque
first_index == window.curr_first_index

\* The next render: selection_scroll is called again on the same lines and
\* size, with window_pos the first index of the slice just returned.
Rerender ==
    /\ Returned
    /\ pass < MaxPasses
    /\ prev' = Append(prev, [pos |-> window_pos, first |-> first_index, lines |-> result])
    /\ pass' = pass + 1
    /\ window_pos' = first_index
    /\ window' = Window_new(window_size, first_index)
    /\ state' = NotSeen
    /\ buffer' = new_buffer(window_size)
    /\ i' = 0
    /\ pc' = "loop"
    /\ UNCHANGED <<items, window_size, other>>

----------------------------------------------------------------------------
\* The same call as a function of its arguments: a call is the record
\* [items, size, pos, window, state, buffer, i, pc] of its arguments and
\* locals.
Enter(its, size, pos) ==
    [items |-> its,
     size |-> size,
     pos |-> pos,
     window |-> Window_new(size, pos),
     state |-> NotSeen,
     buffer |-> new_buffer(size),
     i |-> 0,
     pc |-> "loop"]

\* One iteration of the `for` loop (or its end) on the locals c.
Body(c) ==
    IF c.i = Len(c.items) THEN [c EXCEPT !.pc = "end"]
    ELSE
      LET ln == c.items[c.i + 1]
          st == toggle(c.state, ln.must_display, c.i)
          w == fix(c.window, st)
          slide == CASE st.tag = "NotSeen" -> TRUE
                     [] st.tag = "Started" -> can_advance(w)
                     [] st.tag = "Complete" -> ~is_aligned(w) /\ can_advance(w)
      IN IF ~is_full(c.buffer)
         THEN [c EXCEPT !.state = st, !.window = w,
                        !.buffer = push_back(c.buffer, ln), !.i = c.i + 1]
         ELSE IF slide
         THEN [c EXCEPT !.state = st, !.window = advance(w),
                        !.buffer = push_back(c.buffer, ln), !.i = c.i + 1]
         ELSE [c EXCEPT !.state = st, !.window = w, !.i = c.i + 1, !.pc = "break"]

RECURSIVE Run(_)
Run(c) == IF c.pc = "loop" THEN Run(Body(c)) ELSE c

\* selection_scroll(items, window_size, window_pos): the locals at return.
selection_scroll(its, size, pos) == Run(Enter(its, size, pos))

Next ==
    \/ Fill
    \/ SlideNotSeen
    \/ SlideStarted
    \/ BreakStarted
    \/ BreakAligned
    \/ SlideComplete
    \/ BreakComplete
    \/ Exhausted
    \/ Rerender

Spec == Init /\ [][Next]_vars

----------------------------------------------------------------------------
\* Two calls whose loop iterations interleave: the first in the variables
\* of Spec, the second in `other`.  Both read the same lines; each has its
\* own size, prev_pos, Window, SelState and buffer.
Items2 == {its \in Items : Len(its) <= MaxLen2}
InitTwo ==
    /\ items \in Items2
    /\ window_size \in 0..MaxSize2
    /\ window_pos \in 0..MaxPos2
    /\ window = Window_new(window_size, window_pos)
    /\ state = NotSeen
    /\ buffer = new_buffer(window_size)
    /\ i = 0
    /\ pc = "loop"
    /\ pass = 1
    /\ prev = <<>>
    /\ \E size \in 0..MaxSize2, pos \in 0..MaxPos2 : other = Enter(items, size, pos)

\* A second call that keeps its Window in the first call's variable.
StepOther_shared ==
    /\ other.pc = "loop"
    /\ LET c == Body([other EXCEPT !.window = window])
       IN other' = c /\ window' = c.window
    /\ UNCHANGED <<items, window_size, window_pos, state, buffer, i, pc, pass, prev>>

\* One loop iteration of the second call.
StepOther ==
    /\ other.pc = "loop"
    /\ other' = Body(other)
    /\ UNCHANGED <<items, window_size, window_pos, window, state, buffer, i, pc, pass, prev>>

NextTwo ==
    \/ Fill
    \/ SlideNotSeen
    \/ SlideStarted
    \/ BreakStarted
    \/ BreakAligned
    \/ SlideComplete
    \/ BreakComplete
    \/ Exhausted
    \/ StepOther

SpecTwo == InitTwo /\ [][NextTwo]_vars

\* The pass is one synchronous loop with no suspension point: while a step
\* is possible, one is taken.
FairSpec == Spec /\ WF_vars(Next)

----------------------------------------------------------------------------
\* The loop of the unit test sel_state_toggle, over any flags: one toggle
\* per line, index after index, with no window and no buffer.
ToggleInit ==
    /\ items \in Items
    /\ window_size = 0
    /\ window_pos = 0
    /\ window = Window_new(0, 0)
    /\ state = NotSeen
    /\ buffer = new_buffer(0)
    /\ i = 0
    /\ pc = "toggle"
    /\ pass = 1
    /\ prev = <<>>
    /\ other = NoCall

ToggleStep ==
    /\ pc = "toggle"
    /\ i < Len(items)
    /\ state' = toggle(state, items[i + 1].must_display, i)
    /\ i' = i + 1
    /\ UNCHANGED <<window, buffer, pc, Inputs>>

SpecToggle == ToggleInit /\ [][ToggleStep]_vars

----------------------------------------------------------------------------
\* Vocabulary of the properties (0-based indices).
n == Len(items)
Selected(k) == items[k + 1].must_display
SelIdx == {k \in 0..(n - 1) : Selected(k)}
HasSel == SelIdx # {}
\* first selected index, and last index of the run that starts there
s == CHOOSE k \in SelIdx : \A j \in SelIdx : k <= j
e == CHOOSE k \in SelIdx :
        /\ \A j \in s..k : Selected(j)
        /\ (k + 1 < n => ~Selected(k + 1))
OneRun == SelIdx = s..e
RunLen == e - s + 1
\* the `cnt` input lines from index `a` on (fewer at the end of the input)
Slice(a, cnt) == SubSeq(items, a + 1, Min(a + cnt, n))
\* position k of the input is in the returned slice, as the same line
Shows(k) ==
    /\ first_index <= k
    /\ k < first_index + Len(result)
    /\ result[k - first_index + 1] = items[k + 1]

\* C1: the buffer never holds more than window_size lines, at any point of
\* the pass and in the result, for every input, size and prev_pos.
C1_ResultAtMostSize == Len(buffer.vec_deque) <= window_size

C1_Witness ==
    /\ Returned
    /\ window_size >= 1
    /\ n > window_size
    /\ Len(result) = window_size
    /\ first_index > 0

\* C2: with size >= 1 and at least one selected line, the returned slice
\* contains the first selected line: first_index <= s < first_index + len.
C2_ShowsSelectionStart ==
    (Returned /\ window_size >= 1 /\ HasSel) => Shows(s)

C2_Witness ==
    /\ pc = "break"
    /\ window_size >= 1
    /\ HasSel
    /\ s >= window_size
    /\ window_pos > s
    /\ Shows(s)

\* C3: when the run of selected lines is longer than size, the result is
\* exactly the size lines that start at the first selected line, for every
\* prev_pos.
C3_AnchorsAtRunStart ==
    (Returned /\ HasSel /\ RunLen > window_size) =>
        (first_index = s /\ result = Slice(s, window_size))

C3_Witness ==
    /\ Returned
    /\ HasSel
    /\ OneRun
    /\ window_size >= 2
    /\ RunLen > window_size
    /\ s >= 1
    /\ window_pos > s
    /\ first_index = s
    /\ result = Slice(s, window_size)

\* C4: when the selected lines are one run no longer than size (size >= 1),
\* every selected line is in the returned slice.
C4_ShowsWholeRun ==
    (Returned /\ window_size >= 1 /\ HasSel /\ OneRun /\ RunLen <= window_size) =>
        \A k \in s..e : Shows(k)

C4_Witness ==
    /\ Returned
    /\ HasSel
    /\ OneRun
    /\ RunLen >= 2
    /\ RunLen = window_size
    /\ s >= 1
    /\ e + 1 < n
    /\ \A k \in s..e : Shows(k)

\* C5: a second pass over the same lines with the same size and prev_pos set
\* to the first index of the first pass's slice returns the same slice with
\* the same first index (size >= 1).
C5_Idempotent ==
    (Returned /\ pass >= 2 /\ window_size >= 1) =>
        (first_index = prev[pass - 1].first /\ result = prev[pass - 1].lines)

C5_Witness ==
    /\ Returned
    /\ pass = 2
    /\ window_size >= 1
    /\ HasSel
    /\ prev[1].first > 0
    /\ prev[1].pos # prev[1].first
    /\ first_index = prev[1].first
    /\ result = prev[1].lines

\* C6 as stated: with no selected line the window never advances and the
\* result is the first size lines of the input.
C6_NoSelectionKeepsPrefix ==
    (Returned /\ ~HasSel) => (first_index = 0 /\ result = Slice(0, window_size))

\* C6 amended: with no selected line the window advances once for every line
\* after the first size lines, so the result is the last size lines of the
\* input (the whole input when it is shorter) and first_index is
\* max(0, n - size), for every prev_pos.
C6_NoSelectionSlidesToEnd ==
    (Returned /\ ~HasSel) =>
        (/\ first_index = Max(0, n - window_size)
         /\ result = Slice(Max(0, n - window_size), window_size))

C6_Witness ==
    /\ pc = "end"
    /\ ~HasSel
    /\ window_size >= 1
    /\ n >= window_size + 2
    /\ window_pos = 0
    /\ first_index = n - window_size
    /\ result = Slice(n - window_size, window_size)

\* C7: a single run [s, e] inside the remembered viewport (prev_pos <= s,
\* e < prev_pos + size, prev_pos + size <= n) leaves the viewport where it
\* was: the result is the size lines starting at prev_pos.
C7_StaysAtPrevPos ==
    (/\ Returned /\ HasSel /\ OneRun
     /\ window_pos <= s
     /\ e < window_pos + window_size
     /\ window_pos + window_size <= n) =>
        (first_index = window_pos /\ result = Slice(window_pos, window_size))

C7_Witness ==
    /\ pc = "break"
    /\ pass = 1
    /\ HasSel
    /\ OneRun
    /\ window_pos >= 1
    /\ window_pos < s
    /\ e < window_pos + window_size
    /\ window_pos + window_size < n
    /\ first_index = window_pos
    /\ result = Slice(window_pos, window_size)

\* C8: a single run [s, e] no longer than size with
\* prev_pos <= max(0, e + 1 - size) ends with first_index = max(0, e + 1 - size);
\* hence for e >= size - 1 the last selected line is the last line returned.
C8_SlidesOnlyToRunEnd ==
    (/\ Returned /\ HasSel /\ OneRun
     /\ RunLen <= window_size
     /\ window_pos <= Max(0, e + 1 - window_size)) =>
        (/\ first_index = Max(0, e + 1 - window_size)
         /\ (e >= window_size - 1 =>
                /\ Len(result) = window_size
                /\ result[Len(result)] = items[e + 1]))

C8_Witness ==
    /\ pc = "break"
    /\ pass = 1
    /\ HasSel
    /\ OneRun
    /\ RunLen < window_size
    /\ window_pos < e + 1 - window_size
    /\ e + 1 < n
    /\ first_index = e + 1 - window_size
    /\ result[Len(result)] = items[e + 1]

\* C9: with prev_pos at or after the first selected index s and
\* s + size <= n, the result is the size lines starting at s, whatever the
\* length of the run.
C9_StopsAtSelectionStart ==
    (/\ Returned /\ HasSel
     /\ window_pos >= s
     /\ s + window_size <= n) =>
        (first_index = s /\ result = Slice(s, window_size))

C9_Witness ==
    /\ pc = "break"
    /\ pass = 1
    /\ HasSel
    /\ window_size >= 2
    /\ RunLen < window_size
    /\ s >= 1
    /\ window_pos > s
    /\ s + window_size < n
    /\ first_index = s
    /\ result = Slice(s, window_size)

\* C10: after the toggles for indices 0 .. i-1 the tracker is NotSeen when
\* none of them was selected, Started(k) for the first selected index k when
\* no unselected line followed k, and Complete otherwise; a later selected
\* line does not replace k.
SeenSel == {k \in 0..(i - 1) : Selected(k)}
FirstSeen == CHOOSE k \in SeenSel : \A j \in SeenSel : k <= j
Tracked ==
    IF SeenSel = {} THEN NotSeen
    ELSE IF \E j \in (FirstSeen + 1)..(i - 1) : ~Selected(j) THEN Complete
    ELSE Started(FirstSeen)
C10_ToggleClassifies == state = Tracked

C10_Witness ==
    /\ pc = "toggle"
    /\ state.tag = "Started"
    /\ state.index >= 1
    /\ i >= state.index + 3
    /\ state = Tracked

\* C11: over a run of toggles the tracker only ever changes NotSeen ->
\* Started(i), with i the index of the toggled line, or Started -> Complete;
\* it never goes from NotSeen to Complete, never goes back, and once
\* Complete it stays Complete whatever is toggled.
C11_Step ==
    \/ state' = state
    \/ state.tag = "NotSeen" /\ state' = Started(i)
    \/ state.tag = "Started" /\ state' = Complete
C11_ToggleMonotonic == [][C11_Step]_vars

C11_Witness ==
    /\ pc = "toggle"
    /\ state = Complete
    /\ \E j \in 0..(i - 1), k \in 0..(i - 1) :
          /\ j < k
          /\ Selected(FirstSeen) /\ FirstSeen < j
          /\ ~Selected(j)
          /\ Selected(k)

\* C12: at every point of the pass the buffer holds exactly the consecutive
\* input lines curr_first_index .. curr_first_index + len - 1, in input
\* order with their flags; the result is that slice.
C12_BufferIsSlice ==
    /\ first_index + Len(buffer.vec_deque) <= n
    /\ buffer.vec_deque = Slice(first_index, Len(buffer.vec_deque))

C12_Witness ==
    /\ pc = "loop"
    /\ window_size >= 2
    /\ first_index >= 2
    /\ i < n
    /\ Len(buffer.vec_deque) = window_size
    /\ buffer.vec_deque[1].line = first_index
    /\ buffer.vec_deque[1].must_display
    /\ ~buffer.vec_deque[window_size].must_display
    /\ buffer.vec_deque = Slice(first_index, window_size)

\* C13: every pass terminates; lines are taken in increasing index order,
\* one per step and never twice; after the loop is left no line is taken;
\* the line on which a break is decided is taken but is not in the result.
C13_Step ==
    \/ /\ pc = "loop" /\ i < n /\ i' = i + 1
    \/ /\ i' = i /\ pc' # "loop"
    \/ /\ pc # "loop" /\ pc' = "loop" /\ i' = 0 /\ pass' = pass + 1
C13_OnePassThenStop ==
    /\ [][C13_Step]_vars
    /\ [](i <= n)
    /\ [](pc = "break" =>
            /\ i >= 1
            /\ ~(first_index <= i - 1 /\ i - 1 < first_index + Len(result)))
    /\ (pc = "loop" ~> Returned)

C13_Witness ==
    /\ pc = "break"
    /\ window_size >= 1
    /\ i >= 3
    /\ i < n
    /\ first_index + Len(result) = i - 1

\* C14: with size 0 the pass returns, and what it returns is empty, for
\* every input and every prev_pos.
C14_SizeZeroEmpty ==
    window_size = 0 =>
        /\ buffer.vec_deque = <<>>
        /\ (Returned => result = <<>>)
        /\ (pc = "loop" => ENABLED Next)

C14_Witness ==
    /\ Returned
    /\ window_size = 0
    /\ HasSel
    /\ n >= 3
    /\ window_pos >= 1
    /\ result = <<>>

\* C15: when the flags form two or more disjoint runs, the pass returns the
\* same index range as on the input in which every flag after the first
\* run is cleared, for every size and prev_pos.
FirstRunOnly ==
    [k \in 1..n |-> [items[k] EXCEPT !.must_display = (s <= k - 1 /\ k - 1 <= e)]]
C15_LaterRunsIgnored ==
    (Returned /\ HasSel /\ ~OneRun) =>
        LET r == selection_scroll(FirstRunOnly, window_size, window_pos)
        IN /\ first_index = r.window.curr_first_index
           /\ Len(result) = Len(r.buffer.vec_deque)
           /\ pc = r.pc

C15_Witness ==
    /\ pc = "break"
    /\ HasSel
    /\ ~OneRun
    /\ state = Complete
    /\ \E k \in (e + 2)..(i - 1) : Selected(k)
    /\ first_index < s
    /\ first_index >= 1
    /\ first_index = selection_scroll(FirstRunOnly, window_size, window_pos).window.curr_first_index

\* C16: for n input lines and size >= 1, every prev_pos >= max(0, n - size)
\* gives the result of prev_pos = max(0, n - size), and the first index of
\* the result never exceeds max(0, n - size).
LastStart == Max(0, n - window_size)
C16_OutOfRangePosHarmless ==
    (Returned /\ window_size >= 1) =>
        /\ first_index <= LastStart
        /\ (window_pos >= LastStart =>
              LET r == selection_scroll(items, window_size, LastStart)
              IN /\ first_index = r.window.curr_first_index
                 /\ result = r.buffer.vec_deque)

C16_Witness ==
    /\ Returned
    /\ pass = 1
    /\ window_size >= 1
    /\ n > window_size
    /\ window_pos > n
    /\ HasSel
    /\ state = Complete
    /\ first_index >= 1
    /\ result = selection_scroll(items, window_size, LastStart).buffer.vec_deque

\* C17: when the loop iterations of two calls interleave in any order, each
\* call returns what it returns when it runs alone.
C17_CallsDoNotInterfere ==
    /\ Returned =>
          LET r == selection_scroll(items, window_size, window_pos)
          IN /\ result = r.buffer.vec_deque
             /\ first_index = r.window.curr_first_index
             /\ pc = r.pc
    /\ other.pc \in {"break", "end"} =>
          other = selection_scroll(other.items, other.size, other.pos)

C17_Witness ==
    /\ pc = "break"
    /\ other.pc = "break"
    /\ window_size # other.size
    /\ window_pos # other.pos
    /\ first_index # other.window.curr_first_index
    /\ first_index >= 1
    /\ other.window.curr_first_index >= 1
    /\ result = selection_scroll(items, window_size, window_pos).buffer.vec_deque

\* C18: in every state of a pass, fixed = Some(a) implies
\* curr_first_index <= a, also in the state in which fixed has just been set.
C18_NeverPastAnchor ==
    window.fixed.some => window.curr_first_index <= window.fixed.val

C18_Witness ==
    /\ pc = "loop"
    /\ i < n
    /\ window_size >= 1
    /\ window.fixed.some
    /\ window.fixed.val >= 2
    /\ window.curr_first_index = window.fixed.val
    /\ window.goal_first_index > window.curr_first_index

\* C19: fixed is None exactly while the tracker is NotSeen; it becomes
\* Some(k) on the first selected line k, and within a pass it then keeps
\* that value whatever is passed to fix().
C19_SameCall == pass' = pass
C19_FixedKept ==
    (C19_SameCall /\ window.fixed.some) => window'.fixed = window.fixed
C19_FixedSetOnce ==
    /\ [](window.fixed.some <=> state.tag # "NotSeen")
    /\ [](window.fixed.some => window.fixed.val = FirstSeen)
    /\ [][C19_FixedKept]_vars

C19_Witness ==
    /\ pc \in {"loop", "break"}
    /\ state = Complete
    /\ window.fixed = Some(FirstSeen)
    /\ FirstSeen >= 1
    /\ window.curr_first_index >= 1
    /\ \E k \in (FirstSeen + 2)..(i - 1) : Selected(k)

\* C20: the loop is left early only on a full buffer, with the tracker
\* Started and curr_first_index = fixed, or Complete and (goal_first_index =
\* curr_first_index or curr_first_index = fixed); never while the buffer is
\* not full or the tracker NotSeen.  A step on a full buffer that stays in
\* the loop advances once and pushes the line; a step on a buffer that is
\* not full pushes the line and does not advance.
C20_AtAnchor == window'.fixed.some /\ window'.curr_first_index = window'.fixed.val
C20_Break ==
    (pc = "loop" /\ pc' = "break") =>
        /\ Len(buffer.vec_deque) >= window_size
        /\ buffer' = buffer
        /\ window'.curr_first_index = window.curr_first_index
        /\ window'.goal_first_index = window.goal_first_index
        /\ \/ state'.tag = "Started" /\ C20_AtAnchor
           \/ /\ state'.tag = "Complete"
              /\ \/ window'.goal_first_index = window'.curr_first_index
                 \/ C20_AtAnchor
C20_Slide ==
    (pc = "loop" /\ pc' = "loop" /\ i' = i + 1 /\ Len(buffer.vec_deque) >= window_size) =>
        /\ window'.curr_first_index = window.curr_first_index + 1
        /\ window'.goal_first_index =
              IF window.goal_first_index = window.curr_first_index
              THEN window.goal_first_index + 1 ELSE window.goal_first_index
        /\ buffer'.vec_deque =
              IF window_size = 0 THEN <<>>
              ELSE Append(Tail(buffer.vec_deque), items[i + 1])
C20_FillStep ==
    (pc = "loop" /\ i' = i + 1 /\ Len(buffer.vec_deque) < window_size) =>
        /\ pc' = "loop"
        /\ window'.curr_first_index = window.curr_first_index
        /\ buffer'.vec_deque = Append(buffer.vec_deque, items[i + 1])
C20_HaltsOnlyWhenStated == [][C20_Break /\ C20_Slide /\ C20_FillStep]_vars

C20_Witness ==
    /\ pc = "break"
    /\ i < n
    /\ state = Complete
    /\ window.goal_first_index > window.curr_first_index
    /\ window.fixed.some
    /\ window.curr_first_index = window.fixed.val
    /\ window.fixed.val >= 1
    /\ Len(result) = window_size

\* C21: closed form of the result for size >= 1 and n input lines.  With a
\* first selected run [s, e] the final first index is
\* min(max(max(0, e + 1 - size), prev_pos), s, max(0, n - size)); with no
\* selected line it is max(0, n - size).  The result is the lines from that
\* index on, up to size of them.
ClosedFirst ==
    IF HasSel
    THEN Min(Min(Max(Max(0, e + 1 - window_size), window_pos), s),
             Max(0, n - window_size))
    ELSE Max(0, n - window_size)
C21_ClosedForm ==
    (Returned /\ window_size >= 1) =>
        /\ first_index = ClosedFirst
        /\ result = Slice(ClosedFirst, window_size)

C21_Witness ==
    /\ pc = "break"
    /\ pass = 1
    /\ HasSel
    /\ window_size >= 2
    /\ RunLen < window_size
    /\ window_pos > Max(0, e + 1 - window_size)
    /\ window_pos < s
    /\ window_pos < n - window_size
    /\ first_index = window_pos
    /\ result = Slice(window_pos, window_size)

\* C22: for size >= 1 and n input lines the result has exactly min(n, size)
\* lines, for every selection and prev_pos, also when the loop is left
\* early.
C22_ViewportFull ==
    (Returned /\ window_size >= 1) => Len(result) = Min(n, window_size)

C22_Witness ==
    /\ pc = "break"
    /\ window_size >= 2
    /\ HasSel
    /\ s = 0
    /\ i = window_size + 1
    /\ i < n
    /\ first_index = 0
    /\ Len(result) = window_size

\* C23: in every state of a pass goal_first_index = max(prev_pos,
\* curr_first_index): curr never exceeds goal, goal never drops below
\* prev_pos, and is_aligned() holds exactly when curr_first_index >= prev_pos.
C23_GoalIsMax ==
    /\ window.goal_first_index = Max(window_pos, window.curr_first_index)
    /\ window.curr_first_index <= window.goal_first_index
    /\ window.goal_first_index >= window_pos
    /\ (is_aligned(window) <=> window.curr_first_index >= window_pos)

C23_Witness ==
    /\ pc = "loop"
    /\ window_pos >= 1
    /\ window.curr_first_index >= window_pos + 2
    /\ window.goal_first_index = window.curr_first_index
    /\ i < n

====
